---- MODULE Spec2Model ----
(* Model of src/src/integrator/__init__.py: IntegratorBase.integrate driving *)
(* EulerIntegrator.compute_step or RK4Integrator.compute_step.               *)
(* Real numbers are exact rationals <<numerator, denominator>>; vectors are  *)
(* sequences of rationals combined with numpy's 1-D broadcasting rule.       *)
EXTENDS Integers, Sequences, FiniteSets, TLC

(* ---------------------------------------------------------------- bounds *)
MaxSteps == 3      \* longest time sequence t
MaxOrder == 2      \* longest initial state vector init_y
MaxFLen  == 3      \* longest fixed-length vector a derivative function returns
MaxRaise == 5      \* latest evaluation of f that raises

(* ------------------------------------------------------ exact arithmetic *)
Abs(a) == IF a < 0 THEN -a ELSE a

RECURSIVE GCD(_, _)
GCD(a, b) == IF b = 0 THEN a ELSE GCD(b, a % b)

LCM(a, b) == (a \div GCD(a, b)) * b

RNorm(num, den) == LET g == GCD(Abs(num), den) IN <<num \div g, den \div g>>

I(a) == <<a, 1>>

RAdd(p, q) ==
    LET l == LCM(p[2], q[2])
    IN  RNorm(p[1] * (l \div p[2]) + q[1] * (l \div q[2]), l)

RNeg(p) == <<-p[1], p[2]>>

RSub(p, q) == RAdd(p, RNeg(q))

RMul(p, q) ==
    LET g1 == GCD(Abs(p[1]), q[2])
        g2 == GCD(Abs(q[1]), p[2])
    IN  RNorm((p[1] \div g1) * (q[1] \div g2), (p[2] \div g2) * (q[2] \div g1))

RHalf(p) == RMul(p, <<1, 2>>)

(* ------------------------------------------------- numpy 1-D broadcasting *)
BShapeOK(a, b) == Len(a) = Len(b) \/ Len(a) = 1 \/ Len(b) = 1

BLen(a, b) == IF Len(a) = 1 THEN Len(b) ELSE Len(a)

BGet(a, i) == IF Len(a) = 1 THEN a[1] ELSE a[i]

VAdd(a, b) == [i \in 1..BLen(a, b) |-> RAdd(BGet(a, i), BGet(b, i))]

VSub(a, b) == [i \in 1..BLen(a, b) |-> RSub(BGet(a, i), BGet(b, i))]

VScale(r, a) == [i \in 1..Len(a) |-> RMul(r, a[i])]

(* Python's 0-based indexing of a sequence *)
At(s, i) == s[i + 1]

(* ------------------------------------------------------------ the inputs *)
Garbage == <<0, 0>>          \* content of memory that np.empty did not set

TimeVals == {0, 1, 2}
InitVals == {-1, 1}

SeqsBetween(S, lo, hi) == UNION {[1..l -> S] : l \in lo..hi}

RatSeq(s) == [i \in 1..Len(s) |-> I(s[i])]

(* time points: consecutive points differ (h # 0), increasing, decreasing or *)
(* zigzag, of every length 0..MaxSteps, and the documented t = [0, 0.1]     *)
NoRepeat(s) == \A i \in 1..(Len(s) - 1) : s[i] # s[i + 1]

TimeSeqs ==
    {RatSeq(s) : s \in {u \in SeqsBetween(TimeVals, 0, MaxSteps) : NoRepeat(u)}}
    \cup {<<I(0), <<1, 10>>>>}

InitVecs == {RatSeq(s) : s \in SeqsBetween(InitVals, 1, MaxOrder)}

(* Derivative functions f(t, y):                                            *)
(*   linear: a*y + b*t, elementwise, same length as y (a=-1,b=0 is -y)      *)
(*   osc:    [y[1], -y[0]], length 2, IndexError when len(y) < 2            *)
(*   const:  np.ones(len), whatever the length of y                         *)
FSet ==
    {[kind |-> "linear", a |-> c[1], b |-> c[2], len |-> 0] :
        c \in {<<0, 0>>, <<-1, 0>>, <<1, 1>>}}
    \cup {[kind |-> "osc", a |-> 0, b |-> 0, len |-> 2]}
    \cup {[kind |-> "const", a |-> 0, b |-> 0, len |-> l] : l \in 1..MaxFLen}

FValue(ff, tt, yy) ==
    CASE ff.kind = "linear" ->
            [i \in 1..Len(yy) |-> RAdd(RMul(I(ff.a), yy[i]), RMul(I(ff.b), tt))]
      [] ff.kind = "osc"    -> <<yy[2], RNeg(yy[1])>>
      [] ff.kind = "const"  -> [i \in 1..ff.len |-> I(1)]

(* f raises on its k-th evaluation when the caller's function does so, or   *)
(* when it indexes past the end of y                                        *)
FRaises(ff, yy, k, ra) == k = ra \/ (ff.kind = "osc" /\ Len(yy) < 2)

(* ------------------------------------------------------------- the state *)
VARIABLES self, f, t, init_y, raiseAt,
          pc, steps, order, y, n, h,
          dydt, k1, k2, k3, k4, ret,
          result, err, evals, calls, stores

inputs == <<self, f, t, init_y, raiseAt>>
frame  == <<steps, order, y, n, h>>
locals == <<dydt, k1, k2, k3, k4, ret>>
hist   == <<evals, calls, stores>>
vars   == <<inputs, pc, frame, locals, result, err, hist>>

Unset == <<Garbage>>
NoResult == [returned |-> FALSE, y |-> <<>>]

Init ==
    /\ self \in {"Euler", "RK4"}
    /\ f \in FSet
    /\ t \in TimeSeqs
    /\ init_y \in InitVecs
    /\ raiseAt \in 0..MaxRaise
    /\ pc = "start"
    /\ steps = 0 /\ order = 0 /\ y = <<>> /\ n = 0 /\ h = Garbage
    /\ dydt = Unset /\ k1 = Unset /\ k2 = Unset /\ k3 = Unset /\ k4 = Unset
    /\ ret = Unset
    /\ result = NoResult /\ err = "none"
    /\ evals = 0 /\ calls = <<>> /\ stores = <<>>

(* mutant: the exception is swallowed and the partial trajectory returned *)
Raise_ReturnPartial(e) ==
    /\ pc' = "done"
    /\ err' = e
    /\ result' = [returned |-> TRUE, y |-> y]

(* an exception leaves integrate: nothing is returned *)
Raise(e) ==
    /\ pc' = "failed"
    /\ err' = e
    /\ UNCHANGED result

(* mutant: one row too many *)
Empty_ExtraRow(rows, cols) == [i \in 1..(rows + 1) |-> [j \in 1..cols |-> Garbage]]

(* np.empty((steps, order)) *)
Empty(rows, cols) == [i \in 1..rows |-> [j \in 1..cols |-> Garbage]]

(* y[i] = v : numpy broadcasts v into the row or raises ValueError *)
RowAssignOK(cols, v) == Len(v) = cols \/ Len(v) = 1

RowValue(cols, v) == [j \in 1..cols |-> BGet(v, j)]

(* lines 42-46 *)
integrate_begin ==
    /\ pc = "start"
    /\ steps' = Len(t)
    /\ order' = Len(init_y)
    /\ n' = 0
    /\ IF Len(t) = 0
       THEN /\ y' = Empty(Len(t), Len(init_y))
            /\ Raise("IndexError")
            /\ UNCHANGED stores
       ELSE /\ y' = [Empty(Len(t), Len(init_y)) EXCEPT
                        ![1] = RowValue(Len(init_y), init_y)]
            /\ stores' = Append(stores, [row |-> 0, value |-> RowValue(Len(init_y), init_y)])
            /\ pc' = "for"
            /\ UNCHANGED <<result, err>>
    /\ UNCHANGED <<inputs, h, locals, evals, calls>>

(* mutant: h = t[n] - t[n + 1] *)
StepSize_Reversed(tt, i) == RSub(At(tt, i), At(tt, i + 1))

(* h = t[n + 1] - t[n] *)
StepSize(tt, i) == RSub(At(tt, i + 1), At(tt, i))

t_n == At(t, n)
y_n == At(y, n)

(* lines 48-50: next iteration, h and the call of compute_step *)
for_next ==
    /\ pc = "for"
    /\ n < steps - 1
    /\ h' = StepSize(t, n)
    /\ calls' = Append(calls, [n |-> n, t_n |-> t_n, y_n |-> y_n, h |-> h'])
    /\ pc' = "compute_step"
    /\ UNCHANGED <<inputs, steps, order, y, n, locals, result, err, evals, stores>>

(* line 52 *)
integrate_return ==
    /\ pc = "for"
    /\ n >= steps - 1
    /\ result' = [returned |-> TRUE, y |-> y]
    /\ pc' = "done"
    /\ UNCHANGED <<inputs, frame, locals, err, hist>>

(* mutant: the textbook sign, y_n + dydt * h *)
EulerValue_Plus(yy, dd, hh) == VAdd(yy, VScale(hh, dd))

(* y_n - dydt * h *)
EulerValue(yy, dd, hh) == VSub(yy, VScale(hh, dd))

(* line 58 *)
Euler_dydt ==
    /\ pc = "compute_step"
    /\ self = "Euler"
    /\ evals' = evals + 1
    /\ IF FRaises(f, y_n, evals + 1, raiseAt)
       THEN Raise("f_raised") /\ UNCHANGED dydt
       ELSE /\ dydt' = FValue(f, t_n, y_n)
            /\ pc' = "euler_return"
            /\ UNCHANGED <<result, err>>
    /\ UNCHANGED <<inputs, frame, k1, k2, k3, k4, ret, calls, stores>>

(* line 61 *)
Euler_return ==
    /\ pc = "euler_return"
    /\ IF BShapeOK(y_n, dydt)
       THEN /\ ret' = EulerValue(y_n, dydt, h)
            /\ pc' = "store"
            /\ UNCHANGED <<result, err>>
       ELSE Raise("ValueError_compute_step") /\ UNCHANGED ret
    /\ UNCHANGED <<inputs, frame, dydt, k1, k2, k3, k4, hist>>

(* the y argument of the 2nd, 3rd and 4th evaluation: y_n + k / 2, y_n + k *)
HalfArg(yy, kk) == VAdd(yy, VScale(<<1, 2>>, kk))

FullArg(yy, kk) == VAdd(yy, kk)

(* line 67: k1 = h * f(t_n, y_n) *)
RK4_k1 ==
    /\ pc = "compute_step"
    /\ self = "RK4"
    /\ evals' = evals + 1
    /\ IF FRaises(f, y_n, evals + 1, raiseAt)
       THEN Raise("f_raised") /\ UNCHANGED k1
       ELSE /\ k1' = VScale(h, FValue(f, t_n, y_n))
            /\ pc' = "rk4_k2"
            /\ UNCHANGED <<result, err>>
    /\ UNCHANGED <<inputs, frame, dydt, k2, k3, k4, ret, calls, stores>>

(* line 68: k2 = h * f(t_n + h / 2, y_n + k1 / 2) *)
RK4_k2 ==
    /\ pc = "rk4_k2"
    /\ IF ~BShapeOK(y_n, k1)
       THEN Raise("ValueError_compute_step") /\ UNCHANGED <<k2, evals>>
       ELSE /\ evals' = evals + 1
            /\ IF FRaises(f, HalfArg(y_n, k1), evals + 1, raiseAt)
               THEN Raise("f_raised") /\ UNCHANGED k2
               ELSE /\ k2' = VScale(h, FValue(f, RAdd(t_n, RHalf(h)), HalfArg(y_n, k1)))
                    /\ pc' = "rk4_k3"
                    /\ UNCHANGED <<result, err>>
    /\ UNCHANGED <<inputs, frame, dydt, k1, k3, k4, ret, calls, stores>>

(* line 69: k3 = h * f(t_n + h / 2, y_n + k2 / 2) *)
RK4_k3 ==
    /\ pc = "rk4_k3"
    /\ IF ~BShapeOK(y_n, k2)
       THEN Raise("ValueError_compute_step") /\ UNCHANGED <<k3, evals>>
       ELSE /\ evals' = evals + 1
            /\ IF FRaises(f, HalfArg(y_n, k2), evals + 1, raiseAt)
               THEN Raise("f_raised") /\ UNCHANGED k3
               ELSE /\ k3' = VScale(h, FValue(f, RAdd(t_n, RHalf(h)), HalfArg(y_n, k2)))
                    /\ pc' = "rk4_k4"
                    /\ UNCHANGED <<result, err>>
    /\ UNCHANGED <<inputs, frame, dydt, k1, k2, k4, ret, calls, stores>>

(* line 70: k4 = h * f(t_n + h, y_n + k3) *)
RK4_k4 ==
    /\ pc = "rk4_k4"
    /\ IF ~BShapeOK(y_n, k3)
       THEN Raise("ValueError_compute_step") /\ UNCHANGED <<k4, evals>>
       ELSE /\ evals' = evals + 1
            /\ IF FRaises(f, FullArg(y_n, k3), evals + 1, raiseAt)
               THEN Raise("f_raised") /\ UNCHANGED k4
               ELSE /\ k4' = VScale(h, FValue(f, RAdd(t_n, h), FullArg(y_n, k3)))
                    /\ pc' = "rk4_return"
                    /\ UNCHANGED <<result, err>>
    /\ UNCHANGED <<inputs, frame, dydt, k1, k2, k3, ret, calls, stores>>

(* the operands of line 73 broadcast together *)
RK4ShapeOK(yy, a, b, c, d) ==
    /\ BShapeOK(a, b)
    /\ BShapeOK(VAdd(a, b), c)
    /\ BShapeOK(VAdd(VAdd(a, b), c), d)
    /\ BShapeOK(yy, VAdd(VAdd(VAdd(a, b), c), d))

(* mutant: weights 1, 1, 1, 1 *)
RK4Value_EqualWeights(yy, a, b, c, d) ==
    VAdd(yy, VScale(<<1, 6>>, VAdd(VAdd(VAdd(a, b), c), d)))

(* mutant: 1 / 6 * (y_n + k1 + 2 * k2 + 2 * k3 + k4) *)
RK4Value_SixthOfAll(yy, a, b, c, d) ==
    VScale(<<1, 6>>,
        VAdd(yy, VAdd(VAdd(VAdd(a, VScale(I(2), b)), VScale(I(2), c)), d)))

(* y_n + 1 / 6 * (k1 + 2 * k2 + 2 * k3 + k4) *)
RK4Value(yy, a, b, c, d) ==
    VAdd(yy, VScale(<<1, 6>>,
        VAdd(VAdd(VAdd(a, VScale(I(2), b)), VScale(I(2), c)), d)))

(* line 73 *)
RK4_return ==
    /\ pc = "rk4_return"
    /\ IF RK4ShapeOK(y_n, k1, k2, k3, k4)
       THEN /\ ret' = RK4Value(y_n, k1, k2, k3, k4)
            /\ pc' = "store"
            /\ UNCHANGED <<result, err>>
       ELSE Raise("ValueError_compute_step") /\ UNCHANGED ret
    /\ UNCHANGED <<inputs, frame, dydt, k1, k2, k3, k4, hist>>

(* mutant: y[n] = <value returned by compute_step> *)
store_PreviousRow ==
    /\ pc = "store"
    /\ IF RowAssignOK(order, ret)
       THEN /\ y' = [y EXCEPT ![n + 1] = RowValue(order, ret)]
            /\ stores' = Append(stores, [row |-> n, value |-> RowValue(order, ret)])
            /\ n' = n + 1
            /\ pc' = "for"
            /\ UNCHANGED <<result, err>>
       ELSE Raise("ValueError_store") /\ UNCHANGED <<y, stores, n>>
    /\ UNCHANGED <<inputs, steps, order, h, locals, evals, calls>>

(* line 50: y[n + 1] = <value returned by compute_step> *)
store ==
    /\ pc = "store"
    /\ IF RowAssignOK(order, ret)
       THEN /\ y' = [y EXCEPT ![n + 2] = RowValue(order, ret)]
            /\ stores' = Append(stores, [row |-> n + 1, value |-> RowValue(order, ret)])
            /\ n' = n + 1
            /\ pc' = "for"
            /\ UNCHANGED <<result, err>>
       ELSE Raise("ValueError_store") /\ UNCHANGED <<y, stores, n>>
    /\ UNCHANGED <<inputs, steps, order, h, locals, evals, calls>>

Next ==
    \/ integrate_begin
    \/ for_next
    \/ integrate_return
    \/ Euler_dydt
    \/ Euler_return
    \/ RK4_k1
    \/ RK4_k2
    \/ RK4_k3
    \/ RK4_k4
    \/ RK4_return
    \/ store

Spec == Init /\ [][Next]_vars

(* ================================================================ claims *)
ZeroVec(len) == [j \in 1..len |-> I(0)]

RLess(p, q) == p[1] * q[2] < q[1] * p[2]

Decay == [kind |-> "linear", a |-> -1, b |-> 0, len |-> 0]
Zero  == [kind |-> "linear", a |-> 0, b |-> 0, len |-> 0]

(* f maps vectors of length len(init_y) to vectors of that length *)
WellShaped == f.kind = "linear" \/ f.len = Len(init_y)

(* f returns a vector whose length differs from len(init_y) *)
ReturnsMismatch ==
    \/ f.kind = "const" /\ f.len # Len(init_y)
    \/ f.kind = "osc" /\ Len(init_y) > 2

(* C1: EulerIntegrator.compute_step returns y_n + h * f(t_n, y_n),         *)
(* component by component.                                                  *)
C1_EulerForward ==
    (self = "Euler" /\ pc = "store" /\ WellShaped) =>
        ret = [j \in 1..Len(y_n) |->
                  RAdd(y_n[j], RMul(h, FValue(f, t_n, y_n)[j]))]

(* C2: for f = -y, t = [0, 0.1], init_y = [1.0] EulerIntegrator.integrate  *)
(* returns a trajectory whose row 1 is [1.1].                               *)
C2_Scenario ==
    /\ self = "Euler" /\ f = Decay /\ raiseAt = 0
    /\ t = <<I(0), <<1, 10>>>> /\ init_y = <<I(1)>>

C2_EulerScenario ==
    C2_Scenario =>
        /\ pc # "failed"
        /\ pc = "done" => result.returned /\ At(result.y, 1) = <<<<11, 10>>>>

C2_Witness == C2_Scenario /\ pc = "done" /\ Len(result.y) = 2

(* C3: for len(t) >= 1 and f that does not raise and is well shaped,       *)
(* integrate returns len(t) rows of length len(init_y); for len(t) = 1 the  *)
(* trajectory is the single row init_y and compute_step is never invoked.   *)
C3_Shape ==
    (Len(t) >= 1 /\ raiseAt = 0 /\ WellShaped) =>
        /\ pc # "failed"
        /\ pc = "done" =>
              /\ result.returned
              /\ Len(result.y) = Len(t)
              /\ \A i \in 1..Len(result.y) : Len(result.y[i]) = Len(init_y)
        /\ (pc = "done" /\ Len(t) = 1) =>
              /\ result.y = <<init_y>>
              /\ calls = <<>>
              /\ evals = 0

C3_Witness ==
    /\ pc = "done" /\ raiseAt = 0 /\ WellShaped
    /\ Len(t) = MaxSteps /\ Len(init_y) = 2 /\ Len(result.y) = MaxSteps

C3_WitnessSingle ==
    pc = "done" /\ Len(t) = 1 /\ Len(init_y) = 2 /\ result.y = <<init_y>>

(* C4: row 0 of the trajectory equals init_y from the moment it is set,    *)
(* in every later state of the loop and in the returned trajectory.         *)
C4_RowZero ==
    /\ (pc # "start" /\ Len(t) >= 1) => At(y, 0) = init_y
    /\ pc = "done" => At(result.y, 0) = init_y

C4_Witness ==
    /\ pc = "done" /\ Len(stores) = 3 /\ At(result.y, 0) = init_y
    /\ At(result.y, 2) # init_y

(* C5: compute_step is invoked once per interval in the order              *)
(* n = 0, 1, ..., len(t)-2 with (t[n], the row n stored before, the signed  *)
(* h = t[n+1] - t[n]); its result is stored as row n+1 before the next call.*)
C5_Sequential ==
    /\ \A i \in 1..Len(calls) :
          /\ calls[i].n = i - 1
          /\ calls[i].t_n = At(t, i - 1)
          /\ RAdd(calls[i].t_n, calls[i].h) = At(t, i)
          /\ (calls[i].h[1] < 0) <=> RLess(At(t, i), At(t, i - 1))
          /\ i <= Len(stores)
          /\ calls[i].y_n = stores[i].value
    /\ \A j \in 1..Len(stores) :
          /\ stores[j].row = j - 1
          /\ At(y, j - 1) = stores[j].value
    /\ Len(stores) <= Len(calls) + 1
    /\ pc = "for" => Len(stores) = Len(calls) + 1
    /\ pc = "done" => Len(calls) = Len(t) - 1 /\ Len(stores) = Len(t)
    /\ self = "Euler" => evals <= Len(calls)

C5_Witness ==
    /\ pc = "done" /\ Len(calls) = 2
    /\ calls[1].h[1] < 0 /\ calls[2].h[1] < 0
    /\ calls[2].y_n # calls[1].y_n

(* C6: RK4Integrator.compute_step returns                                  *)
(* y_n + (1/6)(k1 + 2 k2 + 2 k3 + k4) with the classical stages: time       *)
(* offsets (0, h/2, h/2, h), state offsets (0, k1/2, k2/2, k3).             *)
RK4_c == <<I(0), <<1, 2>>, <<1, 2>>, I(1)>>
RK4_a == <<I(0), <<1, 2>>, <<1, 2>>, I(1)>>
RK4_b == <<<<1, 6>>, <<2, 6>>, <<2, 6>>, <<1, 6>>>>

RECURSIVE RefK(_, _, _, _, _)
RefK(ff, tt, yy, hh, i) ==
    LET prev == IF i = 1 THEN ZeroVec(Len(yy)) ELSE RefK(ff, tt, yy, hh, i - 1)
        arg  == [j \in 1..Len(yy) |-> RAdd(yy[j], RMul(RK4_a[i], prev[j]))]
        dy   == FValue(ff, RAdd(tt, RMul(RK4_c[i], hh)), arg)
    IN  [j \in 1..Len(yy) |-> RMul(hh, dy[j])]

RK4Ref(ff, tt, yy, hh) ==
    [j \in 1..Len(yy) |->
        RAdd(RAdd(RAdd(RAdd(yy[j],
            RMul(RNorm(RK4_b[1][1], RK4_b[1][2]), RefK(ff, tt, yy, hh, 1)[j])),
            RMul(RNorm(RK4_b[2][1], RK4_b[2][2]), RefK(ff, tt, yy, hh, 2)[j])),
            RMul(RNorm(RK4_b[3][1], RK4_b[3][2]), RefK(ff, tt, yy, hh, 3)[j])),
            RMul(RNorm(RK4_b[4][1], RK4_b[4][2]), RefK(ff, tt, yy, hh, 4)[j]))]

C6_RK4Formula ==
    (self = "RK4" /\ pc = "store" /\ WellShaped) =>
        ret = RK4Ref(f, t_n, y_n, h)

C6_Witness ==
    /\ self = "RK4" /\ pc = "store" /\ f.kind = "osc" /\ Len(init_y) = 2
    /\ n = 1 /\ h = I(-1) /\ ret # y_n

(* C7: with f identically zero both compute_step return y_n, so both       *)
(* integrators return the trajectory whose rows all equal init_y.           *)
C7_ZeroDerivative ==
    f = Zero =>
        /\ pc = "store" => ret = y_n
        /\ (raiseAt = 0 /\ Len(t) >= 1) => pc # "failed"
        /\ pc = "done" => \A i \in 1..Len(result.y) : result.y[i] = init_y

C7_WitnessEuler ==
    /\ f = Zero /\ self = "Euler" /\ pc = "done"
    /\ Len(result.y) = MaxSteps /\ Len(init_y) = 2 /\ t[2] # t[1]

C7_WitnessRK4 ==
    /\ f = Zero /\ self = "RK4" /\ pc = "done"
    /\ Len(result.y) = MaxSteps /\ Len(init_y) = 2 /\ t[2] # t[1]

(* C8: when an evaluation of f raises, integrate fails at once: nothing is *)
(* returned, f is not evaluated again and no further row is stored.         *)
C8_FailFast ==
    /\ [](err = "f_raised" => (pc = "failed" /\ ~result.returned))
    /\ []((raiseAt > 0 /\ evals >= raiseAt) =>
            /\ pc = "failed" /\ err = "f_raised"
            /\ evals = raiseAt
            /\ Len(stores) = Len(calls))
    /\ [][pc = "failed" =>
            (pc' = "failed" /\ evals' = evals /\ stores' = stores
             /\ y' = y /\ result' = result)]_vars

C8_Witness ==
    /\ self = "RK4" /\ pc = "failed" /\ err = "f_raised"
    /\ raiseAt = 3 /\ evals = 3 /\ Len(stores) = 1 /\ Len(t) = MaxSteps

C8_WitnessLater ==
    /\ pc = "failed" /\ err = "f_raised" /\ raiseAt = 5 /\ evals = 5
    /\ self = "RK4" /\ Len(stores) = 2

(* C9: integrate with a time sequence of length 0 returns an empty         *)
(* trajectory and invokes neither compute_step nor f.                       *)
C9_EmptyTimeSequence ==
    Len(t) = 0 =>
        /\ pc # "failed"
        /\ pc = "done" => result.returned /\ result.y = <<>>
        /\ calls = <<>>
        /\ evals = 0

(* C10: when f returns a vector whose length differs from len(init_y) the  *)
(* call fails at the assignment of row n+1, never inside compute_step, and  *)
(* no row is stored by broadcasting or truncation.                          *)
C10_ShapeMismatch ==
    (ReturnsMismatch /\ Len(t) >= 2 /\ raiseAt = 0) =>
        /\ pc # "done"
        /\ Len(stores) <= 1
        /\ pc = "failed" => err = "ValueError_store"

====
